---- MODULE Spec2Model ----
(***************************************************************************)
(* A model of src/object.rs: the translation of an Artifact into an        *)
(* object file through the object_write builder.                           *)
(*                                                                         *)
(* to_bytes is a straight-line pass: a file symbol, then one call of       *)
(* State::definition per definition, one of State::import per import, one  *)
(* of State::link per link, then finalize and write.  The artifact is read *)
(* through its iterators; the model reveals it item by item, so that the   *)
(* variables definitions, imports and links hold the part of the artifact  *)
(* the pass has consumed so far.                                           *)
(*                                                                         *)
(* Names and payloads are byte strings; they are modelled as sequences (of *)
(* one-character strings, of small numbers).  Option<T> is a sequence of   *)
(* length at most one.  Identifiers (SectionId, SymbolId, StringIndex) are  *)
(* positions, counted from 1.                                              *)
(***************************************************************************)
EXTENDS Integers, Sequences, FiniteSets, TLC

VARIABLES
    artifact,      \* [name, architecture]: the artifact's name and target
    format,        \* the BinaryFormat asked for, State.object.format
    definitions,   \* the definitions consumed so far, in order
    imports,       \* the imports consumed so far, in order
    links,         \* the links consumed so far, in order
    strings,       \* State.strings: the interner, a sequence of names
    sections,      \* State.sections: StringIndex -> (SectionId, offset)
    symbols,       \* State.symbols: StringIndex -> SymbolId
    objSections,   \* State.object.sections
    objSymbols,    \* State.object.symbols
    opLog,         \* the builder operations invoked so far, in order
    pc,            \* the position of to_bytes
    abort          \* the panic that ended the pass, "" when none

vars == <<artifact, format, definitions, imports, links, strings, sections, symbols,
          objSections, objSymbols, opLog, pc, abort>>

(***************************************************************************)
(* Bounds of the model.                                                    *)
(***************************************************************************)
MaxDefs == 2
MaxImports == 1
MaxLinks == 2

None == <<>>
Some(x) == <<x>>

(***************************************************************************)
(* Declarations (crate::artifact::Decl), as the source matches on them.    *)
(***************************************************************************)
FunctionDecl(align, scope, visibility) ==
    [tag |-> "Function", align |-> align, scope |-> scope,
     visibility |-> visibility, datatype |-> "-", writable |-> FALSE,
     kind |-> "-"]

DataDecl(datatype, writable, align, scope, visibility) ==
    [tag |-> "Data", align |-> align, scope |-> scope,
     visibility |-> visibility, datatype |-> datatype, writable |-> writable,
     kind |-> "-"]

SectionDecl(kind, datatype, align) ==
    [tag |-> "Section", align |-> align, scope |-> "-", visibility |-> "-",
     datatype |-> datatype, writable |-> FALSE, kind |-> kind]

ImportDecl(kind) ==
    [tag |-> "Import", align |-> None, scope |-> "-", visibility |-> "-",
     datatype |-> "-", writable |-> FALSE, kind |-> kind]

IsDefinedFunction(decl) == decl.tag = "Function"
IsDefinedData(decl) == decl.tag = "Data"
IsDefinedSection(decl) == decl.tag = "Section"
IsImportFunction(decl) == decl.tag = "Import" /\ decl.kind = "Function"
IsImportData(decl) == decl.tag = "Import" /\ decl.kind = "Data"

UnwrapOr(opt, default) == IF opt = None THEN default ELSE opt[1]

(***************************************************************************)
(* State::definition, the choice of the section (lines 38-86).             *)
(***************************************************************************)
\* Function: StandardSection::Text, alignment 16 unless declared.
FunctionSection == "Text"
FunctionAlign(decl) == UnwrapOr(decl.align, 16)

\* DataSection with the tests in the wrong order: is_writable() first.
DataSection_WritableFirst(decl) ==
    IF decl.writable
    THEN "Data"
    ELSE IF decl.datatype = "Bytes" THEN "ReadOnlyData" ELSE "ReadOnlyString"

\* Data: the standard section follows from the datatype and is_writable().
DataSection(decl) ==
    IF decl.datatype = "Bytes"
    THEN IF decl.writable THEN "Data" ELSE "ReadOnlyData"
    ELSE "ReadOnlyString"

DataAlign(decl) == UnwrapOr(decl.align, 1)

\* Section: the segment follows from the declared SectionKind.
SectionSegment(decl) ==
    CASE decl.kind = "Text" -> "Text"
      [] decl.kind = "Data" -> "Data"
      [] decl.kind = "Debug" -> "Debug"

DebugStr == <<".", "d", "e", "b", "u", "g", "_", "s", "t", "r">>
DebugLineStr ==
    <<".", "d", "e", "b", "u", "g", "_", "l", "i", "n", "e", "_", "s", "t", "r">>

RawSectionKind(name, decl) ==
    IF name = DebugStr \/ name = DebugLineStr
    THEN "OtherString"
    ELSE IF decl.datatype = "Bytes" THEN "Other" ELSE "OtherString"

StartsWithDot(name) == Len(name) > 0 /\ name[1] = "."

RawSectionName(fmt, name) ==
    IF fmt = "Macho" /\ StartsWithDot(name)
    THEN <<"_", "_">> \o Tail(name)
    ELSE name

RawSectionAlign(decl) == UnwrapOr(decl.align, 1)

(***************************************************************************)
(* State::definition, the symbol (lines 89-131), and State::abi_name.      *)
(***************************************************************************)
scope_binding(s) ==
    CASE s = "Local" -> "Local"
      [] s = "Global" -> "Global"
      [] s = "Weak" -> "Weak"

convert_visibility(v) ==
    CASE v = "Default" -> "Default"
      [] v = "Hidden" -> "Hidden"
      [] v = "Protected" -> "Protected"

\* abi_name ends in unimplemented!() for a format other than these three.
abi_name_implemented(fmt) == fmt \in {"Elf", "Coff", "Macho"}

\* abi_name with the underscore of Mach-O given to COFF as well.
abi_name_coff(fmt, name) ==
    (IF fmt \in {"Macho", "Coff"} THEN <<"_">> ELSE <<>>) \o name

abi_name(fmt, name) ==
    (IF fmt = "Macho" THEN <<"_">> ELSE <<>>) \o name

DefinedSymbolKind(decl) == IF IsDefinedFunction(decl) THEN "Text" ELSE "Data"

\* DefinedSymbol with the value of an import, 0, in place of the offset.
DefinedSymbol_ValueZero(fmt, name, data, decl, section_id, offset) ==
    [name |-> abi_name(fmt, name),
     value |-> 0,
     size |-> Len(data),
     binding |-> scope_binding(decl.scope),
     visibility |-> convert_visibility(decl.visibility),
     kind |-> DefinedSymbolKind(decl),
     section |-> Some(section_id)]

DefinedSymbol(fmt, name, data, decl, section_id, offset) ==
    [name |-> abi_name(fmt, name),
     value |-> offset,
     size |-> Len(data),
     binding |-> scope_binding(decl.scope),
     visibility |-> convert_visibility(decl.visibility),
     kind |-> DefinedSymbolKind(decl),
     section |-> Some(section_id)]

\* State::import (lines 137-149).
ImportSymbolKind(kind) == IF kind = "Function" THEN "Text" ELSE "Data"

ImportSymbol(fmt, name, kind) ==
    [name |-> abi_name(fmt, name),
     value |-> 0,
     size |-> 0,
     binding |-> "Global",
     visibility |-> "Default",
     kind |-> ImportSymbolKind(kind),
     section |-> None]

\* to_bytes (lines 216-224): the file symbol, whose name is not decorated.
FileSymbol(name) ==
    [name |-> name,
     value |-> 0,
     size |-> 0,
     binding |-> "Local",
     visibility |-> "Default",
     kind |-> "File",
     section |-> None]

\* Object::add_section_symbol creates the symbol of a section.
SectionSymbol(section_id) ==
    [name |-> <<>>,
     value |-> 0,
     size |-> 0,
     binding |-> "Local",
     visibility |-> "Default",
     kind |-> "Section",
     section |-> Some(section_id)]

(***************************************************************************)
(* State::link, the relocation (lines 163-187).  A result is a relocation  *)
(* without its place, or a panic.                                          *)
(***************************************************************************)
Reloc(kind, code, size, addend, subkind) ==
    [panic |-> "", kind |-> kind, code |-> code, size |-> size,
     addend |-> addend, subkind |-> subkind]

Panic(reason) ==
    [panic |-> reason, kind |-> "-", code |-> 0, size |-> 0, addend |-> 0,
     subkind |-> "-"]

\* AutoReloc with an imported function reached as a defined one is.
AutoReloc_NoPlt(from, to) ==
    IF IsDefinedFunction(from)
    THEN CASE IsDefinedFunction(to) \/ IsImportFunction(to) ->
                Reloc("Relative", 0, 32, -4, "X86Branch")
           [] IsDefinedData(to) -> Reloc("Relative", 0, 32, -4, "Default")
           [] IsImportData(to) ->
                Reloc("GotRelative", 0, 32, -4, "X86RipRelativeMovq")
           [] OTHER -> Panic("unsupported relocation")
    ELSE IF IsDefinedData(from)
         THEN Reloc("Absolute", 0, 64, 0, "Default")
         ELSE Panic("unsupported relocation")

\* Reloc::Auto: the match on the declarations of the link's two ends.
AutoReloc(from, to) ==
    IF IsDefinedFunction(from)
    THEN CASE IsDefinedFunction(to) -> Reloc("Relative", 0, 32, -4, "X86Branch")
           [] IsImportFunction(to) -> Reloc("PltRelative", 0, 32, -4, "X86Branch")
           [] IsDefinedData(to) -> Reloc("Relative", 0, 32, -4, "Default")
           [] IsImportData(to) ->
                Reloc("GotRelative", 0, 32, -4, "X86RipRelativeMovq")
           [] OTHER -> Panic("unsupported relocation")
    ELSE IF IsDefinedData(from)
         THEN Reloc("Absolute", 0, 64, 0, "Default")
         ELSE Panic("unsupported relocation")

\* Reloc::Raw { reloc, addend }.
RawReloc(reloc, addend) == Reloc("Other", reloc, 0, addend, "Default")

\* Reloc::Debug { size, addend }: size * 8 is computed in the type of size,
\* u8.  A product that does not fit panics in a build with overflow checks
\* and wraps in a build without.
SizeBits == 8
SizeModulus == 2 ^ SizeBits

DebugReloc(size, addend) ==
    IF size * 8 < SizeModulus
    THEN {Reloc("Absolute", 0, size * 8, addend, "Default")}
    ELSE {Reloc("Absolute", 0, (size * 8) % SizeModulus, addend, "Default"),
          Panic("attempt to multiply with overflow")}

\* The specification of a link: Auto, Raw or Debug.
RelocAuto == [tag |-> "Auto", reloc |-> 0, size |-> 0, addend |-> 0]
RelocRaw(reloc, addend) ==
    [tag |-> "Raw", reloc |-> reloc, size |-> 0, addend |-> addend]
RelocDebug(size, addend) ==
    [tag |-> "Debug", reloc |-> 0, size |-> size, addend |-> addend]

LinkReloc(spec, from, to) ==
    CASE spec.tag = "Auto" -> {AutoReloc(from, to)}
      [] spec.tag = "Raw" -> {RawReloc(spec.reloc, spec.addend)}
      [] spec.tag = "Debug" -> DebugReloc(spec.size, spec.addend)

\* RelocationOffset without the offset of the source in its section.
RelocationOffset_AtOnly(from_offset, at) == at

\* The place of the relocation (line 190).
RelocationOffset(from_offset, at) == from_offset + at

Relocation(r, offset, symbol) ==
    [offset |-> offset, symbol |-> symbol, kind |-> r.kind, code |-> r.code,
     subkind |-> r.subkind, size |-> r.size, addend |-> r.addend]

(***************************************************************************)
(* The interner and the two tables.                                        *)
(***************************************************************************)
Interned(strs, name) == \E i \in 1..Len(strs) : strs[i] = name

\* get_or_intern: the index of the name, the interner with the name in it.
StringId(strs, name) ==
    IF Interned(strs, name)
    THEN CHOOSE i \in 1..Len(strs) : strs[i] = name
    ELSE Len(strs) + 1

Intern(strs, name) == IF Interned(strs, name) THEN strs ELSE Append(strs, name)

\* HashMap::insert and HashMap::get.
Insert(table, key, value) ==
    [k \in DOMAIN table \cup {key} |-> IF k = key THEN value ELSE table[k]]

Get(table, key) == IF key \in DOMAIN table THEN Some(table[key]) ELSE None

EmptyTable == [k \in {} |-> 0]

(***************************************************************************)
(* The builder (object_write::Object), as far as this file drives it.      *)
(* What the builder returns is the builder's business: add_subsection      *)
(* places the definition in a section of its own or in the section it      *)
(* already keeps for that StandardSection, at an offset of its choosing.   *)
(***************************************************************************)
SubsectionOffsets == {0, 16}

StandardSectionRecord(standard) ==
    [standard |-> standard, segment |-> "-", name |-> <<>>, kind |-> standard,
     data |-> <<>>, align |-> 0, parts |-> <<>>, relocations |-> <<>>]

\* Section::new(segment_name, name, kind, data.to_vec(), align), line 82.
RawSection(segment, name, kind, data, align) ==
    [standard |-> "-", segment |-> segment, name |-> name, kind |-> kind,
     data |-> data, align |-> align, parts |-> <<>>, relocations |-> <<>>]

Part(name, data, align, offset) ==
    [name |-> name, data |-> data, align |-> align, offset |-> offset]

\* The (SectionId, offset) pairs add_subsection may return.
Placements(standard) ==
    ({Len(objSections) + 1}
       \cup {i \in 1..Len(objSections) : objSections[i].standard = standard})
    \X SubsectionOffsets

\* Object::sections after add_subsection returned (section_id, offset).
WithSubsection(standard, part, section_id) ==
    LET base == IF section_id > Len(objSections)
                THEN Append(objSections, StandardSectionRecord(standard))
                ELSE objSections
    IN [base EXCEPT ![section_id].parts = Append(@, part)]

\* Object::add_section_symbol: one symbol per section.
HasSectionSymbol(syms, section_id) ==
    \E i \in 1..Len(syms) :
        syms[i].kind = "Section" /\ syms[i].section = Some(section_id)

SectionSymbolId(syms, section_id) ==
    IF HasSectionSymbol(syms, section_id)
    THEN CHOOSE i \in 1..Len(syms) :
             syms[i].kind = "Section" /\ syms[i].section = Some(section_id)
    ELSE Len(syms) + 1

WithSectionSymbol(syms, section_id) ==
    IF HasSectionSymbol(syms, section_id)
    THEN syms
    ELSE Append(syms, SectionSymbol(section_id))

Op(op, by) == [op |-> op, by |-> by]

(***************************************************************************)
(* State::definition (lines 36-133).                                       *)
(***************************************************************************)
\* The section and the offset of the definition, lines 38-86.
definition_section(name, data, decl, placed) ==
    CASE IsDefinedFunction(decl) ->
           WithSubsection(FunctionSection,
                          Part(name, data, FunctionAlign(decl), placed[2]),
                          placed[1])
      [] IsDefinedData(decl) ->
           WithSubsection(DataSection(decl),
                          Part(name, data, DataAlign(decl), placed[2]),
                          placed[1])
      [] IsDefinedSection(decl) ->
           Append(objSections,
                  RawSection(SectionSegment(decl),
                             RawSectionName(format, name),
                             RawSectionKind(name, decl), data,
                             RawSectionAlign(decl)))

definition_placements(decl) ==
    CASE IsDefinedFunction(decl) -> Placements(FunctionSection)
      [] IsDefinedData(decl) -> Placements(DataSection(decl))
      [] IsDefinedSection(decl) -> {<<Len(objSections) + 1, 0>>}

definition(name, data, decl) ==
    \E placed \in definition_placements(decl) :
        LET string_id == StringId(strings, name)
            section_id == placed[1]
            offset == placed[2]
            withSection == WithSectionSymbol(objSymbols, section_id)
            section_symbol == SectionSymbolId(objSymbols, section_id)
            emit == Op(IF IsDefinedSection(decl)
                       THEN "add_section" ELSE "add_subsection", "definition")
            log == opLog \o <<emit, Op("add_section_symbol", "definition")>>
        IN /\ strings' = Intern(strings, name)
           /\ objSections' = definition_section(name, data, decl, placed)
           /\ sections' = Insert(sections, string_id, <<section_id, offset>>)
           /\ IF IsDefinedSection(decl)
              THEN /\ objSymbols' = withSection
                   /\ symbols' = Insert(symbols, string_id, section_symbol)
                   /\ opLog' = log
                   /\ UNCHANGED <<pc, abort>>
              ELSE IF abi_name_implemented(format)
              THEN /\ objSymbols' =
                         Append(withSection,
                                DefinedSymbol(format, name, data, decl,
                                              section_id, offset))
                   /\ symbols' =
                         Insert(symbols, string_id, Len(withSection) + 1)
                   /\ opLog' = Append(log, Op("add_symbol", "definition"))
                   /\ UNCHANGED <<pc, abort>>
              ELSE /\ objSymbols' = withSection
                   /\ opLog' = log
                   /\ pc' = "aborted"
                   /\ abort' = "not implemented"
                   /\ UNCHANGED symbols

(***************************************************************************)
(* State::import (lines 135-152).                                          *)
(***************************************************************************)
import(name, kind) ==
    LET string_id == StringId(strings, name)
    IN /\ strings' = Intern(strings, name)
       /\ UNCHANGED <<sections, objSections>>
       /\ IF abi_name_implemented(format)
          THEN /\ objSymbols' =
                     Append(objSymbols, ImportSymbol(format, name, kind))
               /\ symbols' = Insert(symbols, string_id, Len(objSymbols) + 1)
               /\ opLog' = Append(opLog, Op("add_symbol", "import"))
               /\ UNCHANGED <<pc, abort>>
          ELSE /\ pc' = "aborted"
               /\ abort' = "not implemented"
               /\ UNCHANGED <<objSymbols, symbols, opLog>>

(***************************************************************************)
(* State::link (lines 154-200).  l.from.decl and l.to.decl are the         *)
(* artifact's declarations of the two names; they are read only after both *)
(* lookups succeeded, that is for names the pass has consumed.             *)
(***************************************************************************)
\* A name the artifact declares and never defines ("u" among the inputs).
DeclaredOnly == FunctionDecl(None, "Global", "Default")

DeclOf(name) ==
    IF \E i \in 1..Len(definitions) : definitions[i].name = name
    THEN (CHOOSE d \in {definitions[i] : i \in 1..Len(definitions)} :
              d.name = name).decl
    ELSE IF \E i \in 1..Len(imports) : imports[i].name = name
    THEN ImportDecl((CHOOSE d \in {imports[i] : i \in 1..Len(imports)} :
                         d.name = name).kind)
    ELSE DeclaredOnly

\* LookupSymbol that falls back on the first symbol instead of failing.
LookupSymbol_OrFirst(table, idx) ==
    IF idx \in DOMAIN table THEN Some(table[idx]) ELSE Some(1)

\* self.symbols.get(&to_idx), self.sections.get(&from_idx), before unwrap().
LookupSymbol(table, idx) == Get(table, idx)
LookupSection(table, idx) == Get(table, idx)

link(l) ==
    LET to_idx == StringId(strings, l.to)
        strings1 == Intern(strings, l.to)
        to_symbol == LookupSymbol(symbols, to_idx)
        from_idx == StringId(strings1, l.from)
        strings2 == Intern(strings1, l.from)
        from == LookupSection(sections, from_idx)
    IN /\ UNCHANGED <<sections, symbols, objSymbols>>
       /\ IF to_symbol = None
          THEN /\ strings' = strings1
               /\ pc' = "aborted"
               /\ abort' = "unwrap on None"
               /\ UNCHANGED <<objSections, opLog>>
          ELSE /\ strings' = strings2
               /\ IF from = None
                  THEN /\ pc' = "aborted"
                       /\ abort' = "unwrap on None"
                       /\ UNCHANGED <<objSections, opLog>>
                  ELSE \E r \in LinkReloc(l.reloc, DeclOf(l.from), DeclOf(l.to)) :
                         IF r.panic # ""
                         THEN /\ pc' = "aborted"
                              /\ abort' = r.panic
                              /\ UNCHANGED <<objSections, opLog>>
                         ELSE LET from_section == from[1][1]
                                  from_offset == from[1][2]
                                  relocation ==
                                      Relocation(r,
                                          RelocationOffset(from_offset, l.at),
                                          to_symbol[1])
                              IN /\ objSections' =
                                       [objSections EXCEPT
                                          ![from_section].relocations =
                                              Append(@, relocation)]
                                 /\ opLog' = Append(opLog,
                                                    Op("push_relocation", "link"))
                                 /\ UNCHANGED <<pc, abort>>

(***************************************************************************)
(* to_bytes (lines 214-236).                                               *)
(***************************************************************************)
\* State::new and the file symbol, lines 215-224.
Start ==
    /\ pc = "start"
    /\ objSymbols' = Append(objSymbols, FileSymbol(artifact.name))
    /\ opLog' = Append(opLog, Op("add_symbol", "to_bytes"))
    /\ pc' = "definitions"
    /\ UNCHANGED <<artifact, format, definitions, imports, links, strings,
                   sections, symbols, objSections, abort>>

UsedNames ==
    {definitions[i].name : i \in 1..Len(definitions)}
        \cup {imports[i].name : i \in 1..Len(imports)}

\* One turn of the loop over artifact.definitions(), lines 225-227.
DefinitionStep(def) ==
    /\ pc = "definitions"
    /\ Len(definitions) < MaxDefs
    /\ def.name \notin UsedNames
    /\ definitions' = Append(definitions, def)
    /\ definition(def.name, def.data, def.decl)
    /\ UNCHANGED <<artifact, format, imports, links>>

DefinitionsEnd ==
    /\ pc = "definitions"
    /\ pc' = "imports"
    /\ UNCHANGED <<artifact, format, definitions, imports, links, strings,
                   sections, symbols, objSections, objSymbols, opLog, abort>>

\* One turn of the loop over artifact.imports(), lines 228-230.
ImportStep(imp) ==
    /\ pc = "imports"
    /\ Len(imports) < MaxImports
    /\ imp.name \notin UsedNames
    /\ imports' = Append(imports, imp)
    /\ import(imp.name, imp.kind)
    /\ UNCHANGED <<artifact, format, definitions, links>>

ImportsEnd ==
    /\ pc = "imports"
    /\ pc' = "links"
    /\ UNCHANGED <<artifact, format, definitions, imports, links, strings,
                   sections, symbols, objSections, objSymbols, opLog, abort>>

\* One turn of the loop over artifact.links(), lines 231-233.
LinkStep(l) ==
    /\ pc = "links"
    /\ Len(links) < MaxLinks
    /\ links' = Append(links, l)
    /\ link(l)
    /\ UNCHANGED <<artifact, format, definitions, imports>>

\* state.object.finalize(), line 234, once the links are exhausted.
Finalize ==
    /\ pc = "links"
    /\ opLog' = Append(opLog, Op("finalize", "to_bytes"))
    /\ pc' = "finalized"
    /\ UNCHANGED <<artifact, format, definitions, imports, links, strings,
                   sections, symbols, objSections, objSymbols, abort>>

\* Write straight after the links, finalize() left out.
Write_Unfinalized ==
    /\ pc = "links"
    /\ opLog' = Append(opLog, Op("write", "to_bytes"))
    /\ pc' = "done"
    /\ UNCHANGED <<artifact, format, definitions, imports, links, strings,
                   sections, symbols, objSections, objSymbols, abort>>

\* state.object.write(), line 235: the bytes go to the caller.
Write ==
    /\ pc = "finalized"
    /\ opLog' = Append(opLog, Op("write", "to_bytes"))
    /\ pc' = "done"
    /\ UNCHANGED <<artifact, format, definitions, imports, links, strings,
                   sections, symbols, objSections, objSymbols, abort>>

Pass(Defs, Imports, Links) ==
    \/ Start
    \/ \E def \in Defs : DefinitionStep(def)
    \/ DefinitionsEnd
    \/ \E imp \in Imports : ImportStep(imp)
    \/ ImportsEnd
    \/ \E l \in Links : LinkStep(l)
    \/ Finalize
    \/ Write

(***************************************************************************)
(* The inputs.                                                             *)
(***************************************************************************)
Target(name, architecture, fmt) ==
    [name |-> name, architecture |-> architecture, format |-> fmt]

Targets ==
    {Target(<<"a">>, "X86_64", "Elf"),
     Target(<<"a">>, "I386", "Coff"),
     Target(<<"_", "m">>, "X86_64", "Macho"),
     Target(<<"w">>, "Wasm32", "Wasm")}

Definition(name, data, decl) == [name |-> name, data |-> data, decl |-> decl]
Import(name, kind) == [name |-> name, kind |-> kind]
Link(from, to, at, reloc) ==
    [from |-> from, to |-> to, at |-> at, reloc |-> reloc]

NameF == <<"f">>
NameH == <<"_", "h">>
NameD == <<"d">>
NameR == <<"r">>
NameS == <<"s">>
NameY == <<"y">>
NameG == <<"g">>
NameX == <<"_", "x">>
NameU == <<"u">>

Zeros == <<0, 0, 0, 0>>

DefF == Definition(NameF, Zeros, FunctionDecl(None, "Global", "Default"))
DefH == Definition(NameH, <<195>>, FunctionDecl(Some(4), "Local", "Hidden"))
DefD ==
    Definition(NameD, <<1, 2>>,
               DataDecl("Bytes", TRUE, None, "Weak", "Protected"))
DefR ==
    Definition(NameR, <<>>,
               DataDecl("Bytes", FALSE, Some(8), "Global", "Default"))
DefS ==
    Definition(NameS, <<104, 105, 0>>,
               DataDecl("String", TRUE, None, "Local", "Hidden"))
DefDebugStr == Definition(DebugStr, <<0>>, SectionDecl("Debug", "Bytes", None))
DefY == Definition(NameY, <<7>>, SectionDecl("Data", "Bytes", Some(8)))
DefDebugLineStr ==
    Definition(DebugLineStr, <<>>, SectionDecl("Text", "String", None))

ImportG == Import(NameG, "Function")
ImportX == Import(NameX, "Data")

\* Inputs that vary the declarations.
EmitDefinitions == {DefF, DefH, DefD, DefR, DefS, DefDebugStr, DefY,
                    DefDebugLineStr}
EmitImports == {ImportG, ImportX}
EmitLinks == {Link(NameD, NameD, 0, RelocAuto), Link(NameF, NameG, 0, RelocAuto)}

\* Inputs that vary the links.
LinkDefinitions == {DefF, DefD, DefDebugStr}
LinkImports == {ImportG, ImportX}
LinkSources == {NameF, NameD, DebugStr}
LinkTargets == {NameF, NameD, DebugStr, NameG, NameX, NameU}
LinkLinks ==
    {Link(from, to, 4, RelocAuto) : from \in LinkSources, to \in LinkTargets}
    \cup {Link(NameG, NameF, 4, RelocAuto),
          Link(NameU, NameF, 4, RelocAuto),
          Link(DebugStr, NameF, 0, RelocRaw(7, 2)),
          Link(NameF, NameF, 0, RelocRaw(7, 2)),
          Link(NameF, NameU, 0, RelocRaw(7, 2)),
          Link(NameG, NameF, 0, RelocRaw(7, 2)),
          Link(DebugStr, NameD, 8, RelocDebug(4, -1)),
          Link(NameU, NameD, 8, RelocDebug(4, -1)),
          Link(NameD, NameU, 8, RelocDebug(4, -1)),
          Link(DebugStr, NameF, 0, RelocDebug(32, 0))}

Init ==
    /\ \E t \in Targets :
          /\ artifact = [name |-> t.name, architecture |-> t.architecture]
          /\ format = t.format
    /\ definitions = <<>>
    /\ imports = <<>>
    /\ links = <<>>
    /\ strings = <<>>
    /\ sections = EmptyTable
    /\ symbols = EmptyTable
    /\ objSections = <<>>
    /\ objSymbols = <<>>
    /\ opLog = <<>>
    /\ pc = "start"
    /\ abort = ""

InitLink ==
    /\ Init
    /\ format = "Elf"

Next == Pass(EmitDefinitions, EmitImports, EmitLinks)
NextLink == Pass(LinkDefinitions, LinkImports, LinkLinks)

Spec == Init /\ [][Next]_vars
SpecLink == InitLink /\ [][NextLink]_vars

(***************************************************************************)
(* What the claims speak of.                                               *)
(***************************************************************************)
Last(s) == s[Len(s)]
Front(s) == SubSeq(s, 1, Len(s) - 1)

DefinedNames == {definitions[i].name : i \in 1..Len(definitions)}

\* A panic ends the pass inside the item consumed last.
AbortedInDefinition == pc = "aborted" /\ imports = <<>> /\ links = <<>>
AbortedInImport == pc = "aborted" /\ imports # <<>> /\ links = <<>>
AbortedInLink == pc = "aborted" /\ links # <<>>

CompletedDefinitions ==
    IF AbortedInDefinition THEN Front(definitions) ELSE definitions
CompletedImports == IF AbortedInImport THEN Front(imports) ELSE imports
CompletedLinks == IF AbortedInLink THEN Front(links) ELSE links

RECURSIVE TotalRelocations(_)
TotalRelocations(sects) ==
    IF sects = <<>>
    THEN 0
    ELSE Len(Head(sects).relocations) + TotalRelocations(Tail(sects))

Logged(op) == \E i \in 1..Len(opLog) : opLog[i].op = op

\* The entry of the name->section table and the symbol id of a name.
SectionEntry(name) == sections[StringId(strings, name)]
SymbolIdOf(name) == symbols[StringId(strings, name)]

\* The link consumed last, with both its names resolvable.
LastLink == Last(links)
LastLinkResolves ==
    /\ links # <<>>
    /\ LastLink.from \in DefinedNames
    /\ LastLink.to \in UsedNames

\* The relocation at the end of the list of the last link's source.
LastRelocation ==
    Last(objSections[SectionEntry(LastLink.from)[1]].relocations)

Shape(r) ==
    [kind |-> r.kind, size |-> r.size, addend |-> r.addend,
     subkind |-> r.subkind]

Expect(kind, size, addend, subkind) ==
    [kind |-> kind, size |-> size, addend |-> addend, subkind |-> subkind]

C1_Table(to) ==
    CASE IsDefinedFunction(to) -> Expect("Relative", 32, -4, "X86Branch")
      [] IsImportFunction(to) -> Expect("PltRelative", 32, -4, "X86Branch")
      [] IsDefinedData(to) -> Expect("Relative", 32, -4, "Default")
      [] IsImportData(to) ->
           Expect("GotRelative", 32, -4, "X86RipRelativeMovq")

(***************************************************************************)
(* C1: an Auto link whose source is a defined Function gets a relocation   *)
(* that follows from the kind of its target alone: defined Function ->     *)
(* Relative/32/-4/branch, imported Function -> PltRelative/32/-4/branch,   *)
(* defined Data -> Relative/32/-4/default, imported Data ->                *)
(* GotRelative/32/-4/RIP-relative load.                                    *)
(***************************************************************************)
C1_AutoFromFunction ==
    (/\ LastLinkResolves
     /\ LastLink.reloc.tag = "Auto"
     /\ IsDefinedFunction(DeclOf(LastLink.from))
     /\ ~IsDefinedSection(DeclOf(LastLink.to)))
    => /\ pc # "aborted"
       /\ Len(objSections[SectionEntry(LastLink.from)[1]].relocations) > 0
       /\ Shape(LastRelocation) = C1_Table(DeclOf(LastLink.to))
       /\ LastRelocation.code = 0

C1_Witness ==
    /\ pc = "done"
    /\ links = <<Link(NameF, NameG, 4, RelocAuto), Link(NameF, NameD, 4, RelocAuto)>>
    /\ \E s \in 1..Len(objSections) :
          /\ Len(objSections[s].relocations) = 2
          /\ objSections[s].relocations[1].kind = "PltRelative"
          /\ objSections[s].relocations[2].kind = "Relative"
          /\ objSections[s].relocations[2].subkind = "Default"

PointerBits(architecture) ==
    CASE architecture = "X86_64" -> 64
      [] architecture = "I386" -> 32
      [] architecture = "Wasm32" -> 32

(***************************************************************************)
(* C2: an Auto link from defined Data to defined Data gets an Absolute     *)
(* relocation, addend 0, default subkind, as wide as a pointer of the      *)
(* artifact's architecture.                                                *)
(***************************************************************************)
C2_DataToDataPointerWidth ==
    (/\ LastLinkResolves
     /\ LastLink.reloc.tag = "Auto"
     /\ IsDefinedData(DeclOf(LastLink.from))
     /\ IsDefinedData(DeclOf(LastLink.to)))
    => /\ pc # "aborted"
       /\ Shape(LastRelocation) =
              Expect("Absolute", PointerBits(artifact.architecture), 0,
                     "Default")

C3_InTable(from, to) ==
    \/ /\ IsDefinedFunction(from)
       /\ \/ IsDefinedFunction(to)
          \/ IsImportFunction(to)
          \/ IsDefinedData(to)
          \/ IsImportData(to)
    \/ IsDefinedData(from) /\ IsDefinedData(to)

(***************************************************************************)
(* C3: an Auto link whose pairing of kinds is not a row of the table ends  *)
(* the pass with the unsupported-relocation panic, and no relocation is    *)
(* attached.                                                               *)
(***************************************************************************)
C3_OtherPairingsAbort ==
    (/\ LastLinkResolves
     /\ LastLink.reloc.tag = "Auto"
     /\ ~C3_InTable(DeclOf(LastLink.from), DeclOf(LastLink.to)))
    => /\ pc = "aborted"
       /\ abort = "unsupported relocation"
       /\ TotalRelocations(objSections) = Len(links) - 1

Unresolved(l) == l.to \notin UsedNames \/ l.from \notin DefinedNames

(***************************************************************************)
(* C4: a link whose target was never registered as a symbol, or whose      *)
(* source was never registered as a section, ends the pass at that link,   *)
(* whatever its relocation specification: no relocation for it, no         *)
(* finalize, no write, no bytes.                                           *)
(***************************************************************************)
C4_UnresolvedAborts ==
    \A i \in 1..Len(links) :
        Unresolved(links[i])
        => /\ pc = "aborted"
           /\ abort = "unwrap on None"
           /\ i = Len(links)
           /\ TotalRelocations(objSections) = Len(links) - 1
           /\ ~Logged("finalize")
           /\ ~Logged("write")

C4_Witness ==
    /\ pc = "aborted"
    /\ Len(links) = 2
    /\ links[1] = Link(NameF, NameF, 4, RelocAuto)
    /\ links[2] = Link(NameF, NameU, 0, RelocRaw(7, 2))
    /\ TotalRelocations(objSections) = 1

(***************************************************************************)
(* C8: a Raw link gets Other(code), width 0 and the caller's addend,       *)
(* whatever the kinds of its ends; a Debug link gets an Absolute           *)
(* relocation with the caller's addend, as wide as 8 times the caller's    *)
(* byte count, for every byte count.                                       *)
(***************************************************************************)
C8_RawAndDebug ==
    (LastLinkResolves /\ LastLink.reloc.tag \in {"Raw", "Debug"})
    => /\ pc # "aborted"
       /\ IF LastLink.reloc.tag = "Raw"
          THEN /\ Shape(LastRelocation) =
                      Expect("Other", 0, LastLink.reloc.addend, "Default")
               /\ LastRelocation.code = LastLink.reloc.reloc
          ELSE Shape(LastRelocation) =
                   Expect("Absolute", 8 * LastLink.reloc.size,
                          LastLink.reloc.addend, "Default")

C10_LinkFrame ==
    (pc = "links" /\ pc' = "links" /\ links' # links)
    => LET l == Last(links')
           entry == SectionEntry(l.from)
           before == objSections[entry[1]]
           after == objSections'[entry[1]]
       IN /\ Len(after.relocations) = Len(before.relocations) + 1
          /\ Front(after.relocations) = before.relocations
          /\ Last(after.relocations).offset = entry[2] + l.at
          /\ Last(after.relocations).symbol = SymbolIdOf(l.to)
          /\ [after EXCEPT !.relocations = before.relocations] = before
          /\ Len(objSections') = Len(objSections)
          /\ \A s \in 1..Len(objSections) :
                 s # entry[1] => objSections'[s] = objSections[s]
          /\ sections' = sections
          /\ symbols' = symbols
          /\ objSymbols' = objSymbols

Place(r) == [offset |-> r.offset, symbol |-> r.symbol]

RECURSIVE PlacesOf(_)
PlacesOf(relocations) ==
    IF relocations = <<>>
    THEN <<>>
    ELSE <<Place(Head(relocations))>> \o PlacesOf(Tail(relocations))

\* The places the links ls put in section s, in the order of the links.
RECURSIVE LinkPlaces(_, _)
LinkPlaces(ls, s) ==
    IF ls = <<>>
    THEN <<>>
    ELSE LET l == Head(ls)
             entry == SectionEntry(l.from)
         IN (IF entry[1] = s
             THEN <<[offset |-> entry[2] + l.at, symbol |-> SymbolIdOf(l.to)]>>
             ELSE <<>>)
            \o LinkPlaces(Tail(ls), s)

C10_Lists ==
    /\ \A s \in 1..Len(objSections) :
           PlacesOf(objSections[s].relocations) = LinkPlaces(CompletedLinks, s)
    /\ TotalRelocations(objSections) = Len(CompletedLinks)
    /\ pc \in {"finalized", "done"}
           => TotalRelocations(objSections) = Len(links)

(***************************************************************************)
(* C10: a link that does not abort appends one relocation to the end of    *)
(* the list of its source's section, at the source's offset plus the       *)
(* link's, against the symbol registered for its target, and changes       *)
(* nothing else: not another section, not a table, not a symbol.  So each  *)
(* section's list is its links in order, and the relocations are as many   *)
(* as the links.                                                           *)
(***************************************************************************)
C10_LinkAppendsOne == [][C10_LinkFrame]_vars /\ []C10_Lists

C10_Witness ==
    /\ pc = "done"
    /\ Len(links) = 2
    /\ \E s \in 1..Len(objSections) :
          /\ Len(objSections[s].relocations) = 2
          /\ objSections[s].relocations[1].offset = 20
          /\ objSections[s].relocations[2].offset = 16
          /\ objSections[s].relocations[1].symbol
                 # objSections[s].relocations[2].symbol

Range(s) == {s[i] : i \in 1..Len(s)}

IsFunctionOrData(def) ==
    IsDefinedFunction(def.decl) \/ IsDefinedData(def.decl)

C5_Section(decl) ==
    IF IsDefinedFunction(decl)
    THEN "Text"
    ELSE IF decl.datatype = "String"
         THEN "ReadOnlyString"
         ELSE IF decl.writable THEN "Data" ELSE "ReadOnlyData"

C5_Align(decl) ==
    IF decl.align # None
    THEN decl.align[1]
    ELSE IF IsDefinedFunction(decl) THEN 16 ELSE 1

(***************************************************************************)
(* C5: a Data definition goes to the standard section its payload type and *)
(* writable flag name: bytes and writable -> Data, bytes and not writable  *)
(* -> ReadOnlyData, string -> ReadOnlyString whatever the flag, aligned as *)
(* declared or to 1; a Function definition goes to Text, aligned as        *)
(* declared or to 16.                                                      *)
(***************************************************************************)
C5_StandardSections ==
    \A def \in Range(definitions) :
        IsFunctionOrData(def)
        => LET entry == SectionEntry(def.name)
               section == objSections[entry[1]]
           IN /\ section.standard = C5_Section(def.decl)
              /\ [name |-> def.name, data |-> def.data,
                  align |-> C5_Align(def.decl), offset |-> entry[2]]
                     \in Range(section.parts)

C5_Witness ==
    /\ pc = "done"
    /\ definitions = <<DefS, DefD>>
    /\ objSections[SectionEntry(NameS)[1]].standard = "ReadOnlyString"
    /\ objSections[SectionEntry(NameD)[1]].standard = "Data"

NamedSymbolIds ==
    {k \in 1..Len(objSymbols) :
        objSymbols[k].kind \in {"Text", "Data"} /\ objSymbols[k].section # None}

(***************************************************************************)
(* C6: a Function or Data definition emits one named symbol: value the     *)
(* offset the section emitter returned, size the length of the payload,    *)
(* kind Text or Data, binding and visibility those of the declaration,     *)
(* section the one just used; the name->symbol table maps the name to it.  *)
(* A RawSection definition emits no named symbol: its name maps to the     *)
(* section symbol, and the name->section table holds offset 0.             *)
(***************************************************************************)
C6_NamedSymbols ==
    /\ \A def \in Range(CompletedDefinitions) :
           LET entry == SectionEntry(def.name)
               symbol == objSymbols[SymbolIdOf(def.name)]
           IN IF IsFunctionOrData(def)
              THEN /\ symbol.value = entry[2]
                   /\ symbol.size = Len(def.data)
                   /\ symbol.kind =
                          (IF IsDefinedFunction(def.decl) THEN "Text" ELSE "Data")
                   /\ symbol.binding = def.decl.scope
                   /\ symbol.visibility = def.decl.visibility
                   /\ symbol.section = <<entry[1]>>
              ELSE /\ symbol.kind = "Section"
                   /\ symbol.section = <<entry[1]>>
                   /\ entry[2] = 0
    /\ Cardinality(NamedSymbolIds) =
           Cardinality({def \in Range(CompletedDefinitions) :
                           IsFunctionOrData(def)})
    /\ \A k \in NamedSymbolIds :
           \E def \in Range(CompletedDefinitions) :
               IsFunctionOrData(def) /\ SymbolIdOf(def.name) = k

C6_Witness ==
    /\ pc = "done"
    /\ definitions = <<DefDebugStr, DefD>>
    /\ SectionEntry(NameD)[2] = 16
    /\ objSymbols[SymbolIdOf(NameD)].value = 16
    /\ objSymbols[SymbolIdOf(NameD)].binding = "Weak"
    /\ objSymbols[SymbolIdOf(DebugStr)].kind = "Section"

C7_Decorated(name) ==
    CASE format = "Macho" -> <<"_">> \o name
      [] format \in {"Elf", "Coff"} -> name

(***************************************************************************)
(* C7: the name of the symbol of a definition or of an import is the       *)
(* declared name with one underscore put before it under Mach-O, the       *)
(* declared name itself under ELF and COFF; under any other format the     *)
(* pass ends in a panic.  An import is an undefined symbol: Global,        *)
(* Default, value 0, size 0, no section, kind Text or Data.                *)
(***************************************************************************)
C7_SymbolNames ==
    /\ \A def \in Range(CompletedDefinitions) :
           IsFunctionOrData(def)
           => /\ format \in {"Elf", "Coff", "Macho"}
              /\ objSymbols[SymbolIdOf(def.name)].name = C7_Decorated(def.name)
    /\ \A imp \in Range(CompletedImports) :
           /\ format \in {"Elf", "Coff", "Macho"}
           /\ objSymbols[SymbolIdOf(imp.name)] =
                  [name |-> C7_Decorated(imp.name),
                   value |-> 0,
                   size |-> 0,
                   binding |-> "Global",
                   visibility |-> "Default",
                   kind |-> (IF imp.kind = "Function" THEN "Text" ELSE "Data"),
                   section |-> <<>>]
    /\ (/\ format \notin {"Elf", "Coff", "Macho"}
        /\ \/ imports # <<>>
           \/ \E def \in Range(definitions) : IsFunctionOrData(def))
       => pc = "aborted" /\ abort = "not implemented"

C7_Witness ==
    /\ pc = "done"
    /\ format = "Macho"
    /\ definitions = <<DefH>>
    /\ imports = <<ImportX>>
    /\ objSymbols[SymbolIdOf(NameH)].name = <<"_", "_", "h">>
    /\ objSymbols[SymbolIdOf(NameX)].name = <<"_", "_", "x">>

C9_DefinitionOps(def, completed) ==
    <<Op(IF IsDefinedSection(def.decl) THEN "add_section" ELSE "add_subsection",
         "definition"),
      Op("add_section_symbol", "definition")>>
    \o (IF completed /\ IsFunctionOrData(def)
        THEN <<Op("add_symbol", "definition")>>
        ELSE <<>>)

RECURSIVE C9_DefinitionsOps(_)
C9_DefinitionsOps(defs) ==
    IF defs = <<>>
    THEN <<>>
    ELSE C9_DefinitionOps(Head(defs), TRUE) \o C9_DefinitionsOps(Tail(defs))

C9_Repeat(n, op) == [i \in 1..n |-> op]

C9_Order ==
    IF pc = "start"
    THEN <<>>
    ELSE <<Op("add_symbol", "to_bytes")>>
         \o C9_DefinitionsOps(CompletedDefinitions)
         \o (IF AbortedInDefinition
             THEN C9_DefinitionOps(Last(definitions), FALSE)
             ELSE <<>>)
         \o C9_Repeat(Len(CompletedImports), Op("add_symbol", "import"))
         \o C9_Repeat(Len(CompletedLinks), Op("push_relocation", "link"))
         \o (IF pc \in {"finalized", "done"}
             THEN <<Op("finalize", "to_bytes")>>
             ELSE <<>>)
         \o (IF pc = "done" THEN <<Op("write", "to_bytes")>> ELSE <<>>)

(***************************************************************************)
(* C9: the builder is driven in this order: the Local file symbol named    *)
(* after the artifact, before any section or other symbol; then, for each  *)
(* definition, its section, the section symbol, the named symbol; then the *)
(* imports; then the links; then finalize once and write once.  With no    *)
(* definition, import or link the file symbol is the only symbol.          *)
(***************************************************************************)
C9_BuilderOrder ==
    /\ opLog = C9_Order
    /\ pc = "start" => objSymbols = <<>> /\ objSections = <<>>
    /\ pc # "start"
       => /\ objSymbols[1] =
                 [name |-> artifact.name, value |-> 0, size |-> 0,
                  binding |-> "Local", visibility |-> "Default",
                  kind |-> "File", section |-> <<>>]
          /\ \A k \in 2..Len(objSymbols) : objSymbols[k].kind # "File"
    /\ \A def \in Range(CompletedDefinitions) :
           IsFunctionOrData(def)
           => \E k \in 2..Len(objSymbols) :
                  /\ k < SymbolIdOf(def.name)
                  /\ objSymbols[k].kind = "Section"
                  /\ objSymbols[k].section = <<SectionEntry(def.name)[1]>>
    /\ (pc = "done" /\ definitions = <<>> /\ imports = <<>> /\ links = <<>>)
       => Len(objSymbols) = 1 /\ objSections = <<>>

C9_Witness ==
    /\ pc = "done"
    /\ definitions = <<DefF, DefDebugStr>>
    /\ imports = <<ImportG>>
    /\ links = <<Link(NameF, NameG, 0, RelocAuto)>>
    /\ Len(opLog) = 10
    /\ opLog[9].op = "finalize"
    /\ opLog[10].op = "write"

====
